---- MODULE Spec2Model ----
(***************************************************************************)
(* The upload handlers of the video-hosting backend:                       *)
(*   handlerUploadVideo      (handler_upload_video.go)                     *)
(*   handlerUploadThumbnail  (the thumbnail handler file)                  *)
(* with getVideoAspectRatio, processVideoForFastStart and                  *)
(* dbVideoToSignedVideo.  Each in-flight request is a process whose        *)
(* position is pc[r]; the file system, the object store and the video      *)
(* database are shared by all requests.                                    *)
(*                                                                         *)
(* Text (paths, keys, content types, URLs) is a sequence of string tokens; *)
(* formatting is concatenation and strings.Split really splits.            *)
(***************************************************************************)
EXTENDS Integers, Sequences, FiniteSets, TLC

\* Number of requests the server handles (they may all be in flight at once).
NumRequests == 2

\* Largest width / height the classifier is checked on.
MaxDim == 12

\* Number of random identifiers the reference round trip is checked on.
MaxRandId == 5

\* ParseMultipartForm's argument in the thumbnail handler, 10 << 20 bytes, in MiB.
ThumbMaxMemoryMiB == 10

\* ParseMultipartForm's argument in the video handler, 10 << 30 bytes, in MiB.
VideoMaxMemoryMiB == 10 * 1024

\* The size the video handler's comment announces as its limit ("1 GB limit"), in MiB.
VideoLimitMiB == 1024

\* http.Status* codes used by the handlers.
StatusOK == 200
StatusBadRequest == 400
StatusUnauthorized == 401
StatusForbidden == 403
StatusInternalServerError == 500

Requests == 1 .. NumRequests
Handlers == {"video", "thumbnail"}
Users == {"alice", "bob"}
\* Video ids a request may name: "v1" is stored (owned by alice), "v404" is not.
VideoIDs == {"v1", "v404"}
\* The nil pointer / the empty string.
Nil == <<>>

\* cfg.s3Bucket, cfg.assetsRoot, cfg.port: static configuration.
s3Bucket == <<"tubely-bucket">>
assetsRoot == <<"assets">>
port == <<"8091">>

\* Sizes (MiB) of the uploaded file part a request may carry.
BodySizes == {1, 2048}

\* Values of the file part's Content-Type header a request may carry.
ContentTypeHeaders ==
    { <<"video", "/", "mp4">>,
      <<"VIDEO", "/", "MP4">>,
      <<"image", "/", "png">>,
      <<"image", "/", "jpeg">>,
      <<"image", "/", "gif">>,
      <<"video", "/", "mp4", ";", "codecs=avc1">>,
      <<"application", "/", "pdf">>,
      <<"video", "/">>,
      <<>> }

\* Widths and heights ffprobe may report for the first stream.
ProbeDims == {0, 9, 16, 32}

VARIABLES
    pc,       \* pc[r]: the request's position in its handler
    handler,  \* handler[r]: which handler serves the request
    loc,      \* loc[r]: the handler's local variables
    resp,     \* resp[r]: the responses written to the ResponseWriter, in order
    hist,     \* hist[r]: the external calls the run has made, in order
    crashed,  \* crashed[r]: the handler goroutine panicked
    fs,       \* the files that exist: [path, by] (by: the request that created it)
    s3,       \* the objects in the store: [bucket, key, contentType, by]
    db,       \* the video records: id -> record
    now,      \* the clock read by time.Now()
    nrand,    \* how many random identifiers have been drawn
    arg,      \* the (width, height) pair handed to the classifier
    out       \* the classifier's result for arg, "" before it ran

vars == <<pc, handler, loc, resp, hist, crashed, fs, s3, db, now, nrand, arg, out>>

----------------------------------------------------------------------------
\* Pure helpers.

\* Go's integer division: truncation toward zero (b # 0).
GoDiv(a, b) ==
    LET abs(x) == IF x < 0 THEN -x ELSE x
        q == abs(a) \div abs(b)
    IN  IF (a < 0) = (b < 0) THEN q ELSE -q

\* ClassifyAspect as it would be with the ratio compared exactly (16:9, 9:16)
\* instead of through the truncated quotients.
ClassifyAspectExact(width, height) ==
    IF height = 0 \/ width = 0 THEN "panic"
    ELSE IF 9 * width = 16 * height THEN "landscape"
    ELSE IF 9 * height = 16 * width THEN "portrait"
    ELSE "other"

\* The branch of getVideoAspectRatio after the stream geometry is read.
\* "panic" is the runtime's integer-divide-by-zero panic.
ClassifyAspect(width, height) ==
    IF height = 0 THEN "panic"
    ELSE IF GoDiv(width, height) = GoDiv(16, 9) THEN "landscape"
    ELSE IF width = 0 THEN "panic"
    ELSE IF GoDiv(height, width) = GoDiv(16, 9) THEN "portrait"
    ELSE "other"

\* strings.Split(s, sep) on token sequences: the pieces between the separators.
RECURSIVE Split(_, _)
Split(s, sep) ==
    IF \A i \in 1 .. Len(s) : s[i] # sep THEN <<s>>
    ELSE LET i == CHOOSE k \in 1 .. Len(s) :
                     s[k] = sep /\ \A j \in 1 .. (k - 1) : s[j] # sep
         IN  <<SubSeq(s, 1, i - 1)>> \o Split(SubSeq(s, i + 1, Len(s)), sep)

\* strings.ToLower on the tokens the model uses.
ToLower(tok) ==
    CASE tok = "VIDEO" -> "video"
      [] tok = "MP4" -> "mp4"
      [] OTHER -> tok

\* mime.ParseMediaType: [ok, mediaType].  The media type is what precedes the
\* first ";", lower-cased; it is "type" or "type/subtype" with non-empty tokens.
ParseMediaType(v) ==
    LET base == Split(v, ";")[1]
        low == [i \in 1 .. Len(base) |-> ToLower(base[i])]
    IN  IF base = <<>> THEN [ok |-> FALSE, mediaType |-> Nil]
        ELSE IF Len(low) = 1 /\ low[1] # "/" THEN [ok |-> TRUE, mediaType |-> low]
        ELSE IF Len(low) = 3 /\ low[1] # "/" /\ low[2] = "/" /\ low[3] # "/"
             THEN [ok |-> TRUE, mediaType |-> low]
        ELSE [ok |-> FALSE, mediaType |-> Nil]

\* MediaTypeAllowed as it would be if only the top-level type were tested.
MediaTypeAllowedByTopLevel(h, mediaType) ==
    IF h = "video" THEN mediaType[1] = "video" ELSE mediaType[1] = "image"

\* The media-type test of each handler (TRUE: the upload is accepted).
MediaTypeAllowed(h, mediaType) ==
    IF h = "video" THEN mediaType = <<"video", "/", "mp4">>
    ELSE mediaType = <<"image", "/", "jpeg">> \/ mediaType = <<"image", "/", "png">>

\* base64.RawURLEncoding.EncodeToString of the n-th random byte string.
EncodeToString(n) == <<"b64-" \o ToString(n)>>

\* The name os.CreateTemp("", "tubely-upload.mp4") gives its n-th candidate.
TempName(n) == <<"/tmp/", "tubely-upload.mp4", ToString(n)>>

\* outputFilePath := filePath + ".processing"
ProcessedPath(filePath) == filePath \o <<".processing">>

\* filepath.Join(cfg.assetsRoot, fmt.Sprintf("%s.%s", fprefix, file_ext))
ThumbnailPath(fprefix, ext) == assetsRoot \o <<"/">> \o fprefix \o <<".">> \o ext

\* S3Key as it would be without the partition prefix.
S3KeyFlat(aspect, fn, ext) == fn \o <<".">> \o ext

\* fmt.Sprintf("%s/%s.%s", aspect_prefix, fn, file_ext)
S3Key(aspect, fn, ext) == <<aspect>> \o <<"/">> \o fn \o <<".">> \o ext

\* The reference as it would be with ":" between bucket and key.
VideoDataUrlColon(bucket, key) == bucket \o <<":">> \o key

\* fmt.Sprintf("%s,%s", cfg.s3Bucket, s3Key), for any configured bucket.
VideoDataUrlFor(bucket, key) == bucket \o <<",">> \o key

\* dataUrl of the video handler, with the bucket of this configuration.
VideoDataUrl(key) == VideoDataUrlFor(s3Bucket, key)

\* fmt.Sprintf("http://localhost:%s/%s", cfg.port, thumbnail_path)
ThumbnailDataUrl(path) == <<"http://localhost:">> \o port \o <<"/">> \o path

\* The URL PresignGetObject returns for (bucket, key).
PresignedURL(bucket, key) ==
    <<"https://">> \o bucket \o <<".s3.amazonaws.com/">> \o key \o <<"?X-Amz-Signature">>

----------------------------------------------------------------------------
\* The file system.

Exists(path) == \E f \in fs : f.path = path
Remove(files, path) == {f \in files : f.path # path}
\* Create or truncate path on behalf of request r.
Create(files, path, r) == Remove(files, path) \cup {[path |-> path, by |-> r]}

----------------------------------------------------------------------------
\* Initial state: the server is up, no request has arrived, one video is stored.

NoVideo == [ID |-> "", UserID |-> "", VideoURL |-> Nil, ThumbnailURL |-> Nil, UpdatedAt |-> 0]

InitLoc ==
    [videoID |-> "", userID |-> "", size |-> 0, inMemory |-> TRUE,
     contentType |-> Nil, mediaType |-> Nil, ext |-> Nil,
     temp |-> Nil, path |-> Nil, defers |-> <<>>, rnd |-> 0,
     aspect |-> "", key |-> Nil, dataUrl |-> Nil, video |-> NoVideo]

InitServer ==
    /\ pc = [r \in Requests |-> "idle"]
    /\ handler = [r \in Requests |-> ""]
    /\ loc = [r \in Requests |-> InitLoc]
    /\ resp = [r \in Requests |-> <<>>]
    /\ hist = [r \in Requests |-> <<>>]
    /\ crashed = [r \in Requests |-> FALSE]
    /\ fs = {}
    /\ s3 = {}
    /\ db = [v \in {"v1"} |->
               [ID |-> "v1", UserID |-> "alice", VideoURL |-> Nil,
                ThumbnailURL |-> Nil, UpdatedAt |-> 0]]
    /\ now = 0
    /\ nrand = 0

Init ==
    /\ InitServer
    /\ arg = <<1, 1>>
    /\ out = ""

----------------------------------------------------------------------------
\* Bookkeeping shared by the steps of a handler.

\* What one call of respondWithError / respondWithJSON writes to the
\* ResponseWriter: one response with the given status code and message.
respondWithError(code, msg) == <<[code |-> code, msg |-> msg]>>
respondWithJSON(code) == <<[code |-> code, msg |-> ""]>>

\* The locals that outlive the handler's return: the arguments of its
\* deferred os.Remove calls.
Returned(l) == [InitLoc EXCEPT !.defers = l.defers]

\* One external call, as recorded in hist.
Ev(op, ok) == [op |-> op, ok |-> ok]

\* Where a handler goes when it returns: its deferred os.Remove calls, if any
\* were registered, run before the handler is done.
ReturnPC(l) == IF l.defers = <<>> THEN "done" ELSE "defers"

\* One step of request r: new position, new locals, what it wrote, what it called.
Step(r, newpc, newloc, written, events) ==
    /\ pc' = [pc EXCEPT ![r] = newpc]
    /\ loc' = [loc EXCEPT ![r] = newloc]
    /\ resp' = [resp EXCEPT ![r] = @ \o written]
    /\ hist' = [hist EXCEPT ![r] = @ \o events]

\* respondWithError(w, code, msg, err) followed by return.
Abort(r, code, msg, events) ==
    Step(r, ReturnPC(loc[r]), Returned(loc[r]), respondWithError(code, msg), events)

\* A run-time panic in the handler goroutine: nothing is written, the deferred
\* calls registered so far run, and net/http recovers and drops the connection.
Panic(r, events) ==
    /\ Step(r, ReturnPC(loc[r]), Returned(loc[r]), <<>>, events)
    /\ crashed' = [crashed EXCEPT ![r] = TRUE]

\* ParseMultipartForm(maxMemory): the maxMemory each handler passes.
MaxMemoryMiB(h) == IF h = "video" THEN VideoMaxMemoryMiB ELSE ThumbMaxMemoryMiB

----------------------------------------------------------------------------
\* The steps common to both handlers.

\* A request arrives at one of the two endpoints.  Requests are numbered in
\* their order of arrival.
Arrive(r) ==
    /\ pc[r] = "idle"
    /\ \A q \in Requests : q < r => pc[q] # "idle"
    /\ \E h \in Handlers : handler' = [handler EXCEPT ![r] = h]
    /\ pc' = [pc EXCEPT ![r] = "auth"]
    /\ UNCHANGED <<loc, resp, hist, crashed, fs, s3, db, now, nrand, arg, out>>

\* uuid.Parse, auth.GetBearerToken, auth.ValidateJWT.
Authenticate(r) ==
    /\ pc[r] = "auth"
    /\ \/ Abort(r, StatusBadRequest, "Invalid ID", <<>>)
       \/ Abort(r, StatusUnauthorized, "Couldn't find JWT", <<>>)
       \/ Abort(r, StatusUnauthorized, "Couldn't validate JWT", <<>>)
       \/ \E id \in VideoIDs, u \in Users :
             Step(r, "parseform", [loc[r] EXCEPT !.videoID = id, !.userID = u],
                  <<>>, <<>>)
    /\ UNCHANGED <<handler, crashed, fs, s3, db, now, nrand, arg, out>>

\* r.ParseMultipartForm(maxMemory); r.FormFile(field); defer file.Close().
\* ParseMultipartForm keeps a part of at most maxMemory in memory and any larger
\* one on disk: it sets no limit on the size of the body.  When the form has no
\* such field FormFile returns a nil file, and evaluating file.Close on the nil
\* interface in the defer statement panics before the error is looked at.
ParseForm(r) ==
    /\ pc[r] = "parseform"
    /\ \/ /\ Panic(r, <<>>)
       \/ /\ \E size \in BodySizes, ct \in ContentTypeHeaders :
                Step(r, "mediatype",
                     [loc[r] EXCEPT !.size = size,
                                    !.inMemory = (size <= MaxMemoryMiB(handler[r])),
                                    !.contentType = ct],
                     <<>>, <<>>)
          /\ UNCHANGED crashed
    /\ UNCHANGED <<handler, fs, s3, db, now, nrand, arg, out>>

\* mime.ParseMediaType, the allow-list test, file_ext.
CheckMediaType(r) ==
    /\ pc[r] = "mediatype"
    /\ LET p == ParseMediaType(loc[r].contentType)
       IN  IF ~p.ok THEN Abort(r, StatusBadRequest, "Couldn't parse media type", <<>>)
           ELSE IF ~MediaTypeAllowed(handler[r], p.mediaType)
                THEN Abort(r, StatusBadRequest, "Invalid media type", <<>>)
           ELSE Step(r, IF handler[r] = "video" THEN "createtemp" ELSE "rand",
                     [loc[r] EXCEPT !.contentType = Nil,
                                    !.mediaType = p.mediaType,
                                    !.ext = Split(p.mediaType, "/")[2]],
                     <<>>, <<>>)
    /\ UNCHANGED <<handler, crashed, fs, s3, db, now, nrand, arg, out>>

\* rand.Read(rand_bytes).  Every draw is a byte string never drawn before.
RandRead(r) ==
    /\ pc[r] = "rand"
    /\ \/ /\ Abort(r, StatusInternalServerError, "Couldn't generate random bytes",
                   <<Ev("rand.Read", FALSE)>>)
          /\ UNCHANGED nrand
       \/ /\ nrand' = nrand + 1
          /\ Step(r, IF handler[r] = "video" THEN "process" ELSE "create",
                  [loc[r] EXCEPT !.rnd = nrand + 1], <<>>, <<Ev("rand.Read", TRUE)>>)
    /\ UNCHANGED <<handler, crashed, fs, s3, db, now, arg, out>>

\* io.Copy(temp_file, file) / io.Copy(tf, file).  A cancelled request or a
\* dropped connection is a failed copy.
CopyBody(r) ==
    /\ pc[r] = "copy"
    /\ \/ Abort(r, StatusInternalServerError, "Couldn't copy file", <<Ev("io.Copy", FALSE)>>)
       \/ IF handler[r] = "video"
          THEN Step(r, "rand", [loc[r] EXCEPT !.size = 0, !.inMemory = TRUE],
                    <<>>, <<Ev("io.Copy", TRUE)>>)
          ELSE Step(r, "getvideo",
                    [loc[r] EXCEPT !.size = 0, !.inMemory = TRUE,
                                   !.dataUrl = ThumbnailDataUrl(loc[r].path)],
                    <<>>, <<Ev("io.Copy", TRUE)>>)
    /\ UNCHANGED <<handler, crashed, fs, s3, db, now, nrand, arg, out>>

\* The video record store: get(id) is the record, or NotFound when no record
\* has the id; update(record) stores the whole record under its id.
dbGetVideo(id) ==
    IF id \in DOMAIN db THEN [video |-> db[id], err |-> FALSE]
    ELSE [video |-> NoVideo, err |-> TRUE]

dbUpdateVideo(video) == [db EXCEPT ![video.ID] = video]

\* GetVideo as it would be without the ownership test.
GetVideoNoOwnerTest(r) ==
    /\ pc[r] = "getvideo"
    /\ IF dbGetVideo(loc[r].videoID).err
       THEN Abort(r, StatusInternalServerError, "Couldn't get video",
                  <<Ev("GetVideo", FALSE)>>)
       ELSE Step(r, "stamp", [loc[r] EXCEPT !.video = dbGetVideo(loc[r].videoID).video],
                 <<>>, <<Ev("GetVideo", TRUE)>>)
    /\ UNCHANGED <<handler, crashed, fs, s3, db, now, nrand, arg, out>>

\* cfg.db.GetVideo(videoID) and the ownership test.
GetVideo(r) ==
    /\ pc[r] = "getvideo"
    /\ IF dbGetVideo(loc[r].videoID).err
       THEN Abort(r, StatusInternalServerError, "Couldn't get video",
                  <<Ev("GetVideo", FALSE)>>)
       ELSE LET video == dbGetVideo(loc[r].videoID).video
            IN  IF video.UserID # loc[r].userID
                THEN Abort(r, StatusForbidden, "You don't have permission to upload this",
                           <<Ev("GetVideo", TRUE)>>)
                ELSE Step(r, "stamp", [loc[r] EXCEPT !.video = video],
                          <<>>, <<Ev("GetVideo", TRUE)>>)
    /\ UNCHANGED <<handler, crashed, fs, s3, db, now, nrand, arg, out>>

\* video.VideoURL = &dataUrl (video.ThumbnailURL = &dataUrl);
\* video.UpdatedAt = time.Now(): the handler's copy of the record gets the
\* new URL and the time read from the clock, which never reads the same twice.
StampVideo(r) ==
    /\ pc[r] = "stamp"
    /\ now' = now + 1
    /\ LET set == IF handler[r] = "video"
                  THEN [loc[r].video EXCEPT !.VideoURL = loc[r].dataUrl]
                  ELSE [loc[r].video EXCEPT !.ThumbnailURL = loc[r].dataUrl]
       IN  Step(r, "update", [loc[r] EXCEPT !.video = [set EXCEPT !.UpdatedAt = now + 1]],
                <<>>, <<>>)
    /\ UNCHANGED <<handler, crashed, fs, s3, db, nrand, arg, out>>

\* UpdateVideo as it would be if a record that already has the URL kept it
\* (first writer wins) while the handler went on as after a success.
UpdateVideoFirstWriterWins(r) ==
    /\ pc[r] = "update"
    /\ LET video == loc[r].video
           stored == db[video.ID]
           kept == IF handler[r] = "video" /\ stored.VideoURL # Nil
                   THEN [video EXCEPT !.VideoURL = stored.VideoURL]
                   ELSE video
       IN  \/ /\ Abort(r, StatusInternalServerError, "Couldn't update video",
                       <<Ev("UpdateVideo", FALSE)>>)
              /\ UNCHANGED db
           \/ /\ db' = dbUpdateVideo(kept)
              /\ Step(r, IF handler[r] = "video" THEN "sign" ELSE "respond",
                      loc[r], <<>>, <<Ev("UpdateVideo", TRUE)>>)
    /\ UNCHANGED <<handler, crashed, fs, s3, now, nrand, arg, out>>

\* cfg.db.UpdateVideo(video): stores the record it is given, or fails and
\* stores nothing.
UpdateVideo(r) ==
    /\ pc[r] = "update"
    /\ LET video == loc[r].video
       IN  \/ /\ Abort(r, StatusInternalServerError, "Couldn't update video",
                       <<Ev("UpdateVideo", FALSE)>>)
              /\ UNCHANGED db
           \/ /\ db' = dbUpdateVideo(video)
              /\ Step(r, IF handler[r] = "video" THEN "sign" ELSE "respond",
                      loc[r], <<>>, <<Ev("UpdateVideo", TRUE)>>)
    /\ UNCHANGED <<handler, crashed, fs, s3, now, nrand, arg, out>>

\* The deferred os.Remove calls, last registered first.
RECURSIVE RemoveAll(_, _)
RemoveAll(files, paths) ==
    IF paths = <<>> THEN files
    ELSE RemoveAll(Remove(files, Head(paths)), Tail(paths))

RunDefers(r) ==
    /\ pc[r] = "defers"
    /\ fs' = RemoveAll(fs, loc[r].defers)
    /\ Step(r, "done", InitLoc, <<>>,
            [i \in 1 .. Len(loc[r].defers) |-> Ev("os.Remove", TRUE)])
    /\ UNCHANGED <<handler, crashed, s3, db, now, nrand, arg, out>>

----------------------------------------------------------------------------
\* The steps of handlerUploadVideo alone.

\* CreateTemp as it would be without the deferred os.Remove.
CreateTempNoRemove(r) ==
    /\ pc[r] = "createtemp"
    /\ \/ /\ Abort(r, StatusInternalServerError, "Couldn't create temp file",
                   <<Ev("os.CreateTemp", FALSE)>>)
          /\ UNCHANGED fs
       \/ \E n \in Requests :
             /\ ~Exists(TempName(n))
             /\ fs' = Create(fs, TempName(n), r)
             /\ Step(r, "copy", [loc[r] EXCEPT !.temp = TempName(n)],
                     <<>>, <<Ev("os.CreateTemp", TRUE)>>)
    /\ UNCHANGED <<handler, crashed, s3, db, now, nrand, arg, out>>

\* os.CreateTemp("", "tubely-upload.mp4"); defer os.Remove(temp_file.Name()).
\* CreateTemp picks a name no existing file has.
CreateTemp(r) ==
    /\ pc[r] = "createtemp"
    /\ \/ /\ Abort(r, StatusInternalServerError, "Couldn't create temp file",
                   <<Ev("os.CreateTemp", FALSE)>>)
          /\ UNCHANGED fs
       \/ \E n \in Requests :
             /\ ~Exists(TempName(n))
             /\ fs' = Create(fs, TempName(n), r)
             /\ Step(r, "copy",
                     [loc[r] EXCEPT !.temp = TempName(n), !.defers = <<TempName(n)>>],
                     <<>>, <<Ev("os.CreateTemp", TRUE)>>)
    /\ UNCHANGED <<handler, crashed, s3, db, now, nrand, arg, out>>

\* processVideoForFastStart as it would be if the handler went on after a
\* failed ffmpeg run.
processVideoIgnoringError(r) ==
    /\ pc[r] = "process"
    /\ LET outputFilePath == ProcessedPath(loc[r].temp)
       IN  \E ok \in BOOLEAN :
              /\ ~Exists(outputFilePath)
              /\ fs' = Create(fs, outputFilePath, r)
              /\ Step(r, "open",
                      [loc[r] EXCEPT !.path = outputFilePath,
                                     !.defers = <<outputFilePath>> \o @],
                      <<>>, <<Ev("ffmpeg", ok)>>)
    /\ UNCHANGED <<handler, crashed, s3, db, now, nrand, arg, out>>

\* processVideoForFastStart as it would be if ffmpeg were run with -y: an
\* output file that already exists is overwritten.
processVideoOverwriting(r) ==
    /\ pc[r] = "process"
    /\ LET outputFilePath == ProcessedPath(loc[r].temp)
       IN  \/ /\ fs' = Create(fs, outputFilePath, r)
              /\ Step(r, "open",
                      [loc[r] EXCEPT !.path = outputFilePath,
                                     !.defers = <<outputFilePath>> \o @],
                      <<>>, <<Ev("ffmpeg", TRUE)>>)
           \/ /\ fs' = Create(fs, outputFilePath, r)
              /\ Abort(r, StatusInternalServerError, "Couldn't process video",
                       <<Ev("ffmpeg", FALSE)>>)
    /\ UNCHANGED <<handler, crashed, s3, db, now, nrand, arg, out>>

\* processVideoForFastStart(temp_file.Name()); defer os.Remove(processedFilePath).
\* ffmpeg writes filePath + ".processing".  It exits 0 with the output written,
\* or non-zero with or without an output file left behind; it refuses to
\* overwrite an output file that already exists (no -y) and exits non-zero.
\* Only a successful run reaches the defer.
processVideoForFastStart(r) ==
    /\ pc[r] = "process"
    /\ LET outputFilePath == ProcessedPath(loc[r].temp)
       IN  \/ /\ ~Exists(outputFilePath)
              /\ fs' = Create(fs, outputFilePath, r)
              /\ Step(r, "open",
                      [loc[r] EXCEPT !.path = outputFilePath,
                                     !.defers = <<outputFilePath>> \o @],
                      <<>>, <<Ev("ffmpeg", TRUE)>>)
           \/ /\ ~Exists(outputFilePath)
              /\ fs' = Create(fs, outputFilePath, r)
              /\ Abort(r, StatusInternalServerError, "Couldn't process video",
                       <<Ev("ffmpeg", FALSE)>>)
           \/ /\ UNCHANGED fs
              /\ Abort(r, StatusInternalServerError, "Couldn't process video",
                       <<Ev("ffmpeg", FALSE)>>)
    /\ UNCHANGED <<handler, crashed, s3, db, now, nrand, arg, out>>

\* os.Open(processedFilePath): fails when the file is not there, and may fail
\* for want of resources.
OpenProcessed(r) ==
    /\ pc[r] = "open"
    /\ \/ Abort(r, StatusInternalServerError, "Couldn't open processed file",
                <<Ev("os.Open", FALSE)>>)
       \/ /\ Exists(loc[r].path)
          /\ Step(r, "probe", loc[r], <<>>, <<Ev("os.Open", TRUE)>>)
    /\ UNCHANGED <<handler, crashed, fs, s3, db, now, nrand, arg, out>>

\* getVideoAspectRatio as it would be if the handler went on after a failed
\* ffprobe run, with the partition `other`.
getVideoAspectRatioIgnoringError(r) ==
    /\ pc[r] = "probe"
    /\ \/ /\ Step(r, "put", [loc[r] EXCEPT !.aspect = "other"],
                  <<>>, <<Ev("ffprobe", FALSE)>>)
          /\ UNCHANGED crashed
       \/ \E width \in ProbeDims, height \in ProbeDims :
             LET aspect == ClassifyAspect(width, height)
             IN  IF aspect = "panic"
                 THEN Panic(r, <<Ev("ffprobe", TRUE)>>)
                 ELSE /\ Step(r, "put", [loc[r] EXCEPT !.aspect = aspect],
                              <<>>, <<Ev("ffprobe", TRUE)>>)
                      /\ UNCHANGED crashed
    /\ UNCHANGED <<handler, fs, s3, db, now, nrand, arg, out>>

\* getVideoAspectRatio(temp_file.Name()): ffprobe exits non-zero, or prints
\* what is not JSON, or reports no stream: an error.  Otherwise the first
\* stream's width and height are classified.
getVideoAspectRatio(r) ==
    /\ pc[r] = "probe"
    /\ \/ /\ Abort(r, StatusInternalServerError, "Couldn't get video aspect ratio",
                   <<Ev("ffprobe", FALSE)>>)
          /\ UNCHANGED crashed
       \/ \E width \in ProbeDims, height \in ProbeDims :
             LET aspect == ClassifyAspect(width, height)
             IN  IF aspect = "panic"
                 THEN Panic(r, <<Ev("ffprobe", TRUE)>>)
                 ELSE /\ Step(r, "put", [loc[r] EXCEPT !.aspect = aspect],
                              <<>>, <<Ev("ffprobe", TRUE)>>)
                      /\ UNCHANGED crashed
    /\ UNCHANGED <<handler, fs, s3, db, now, nrand, arg, out>>

\* PutObject as it would be if the handler went on after a failed upload.
PutObjectUnchecked(r) ==
    /\ pc[r] = "put"
    /\ LET s3Key == S3Key(loc[r].aspect, EncodeToString(loc[r].rnd), loc[r].ext)
           dataUrl == VideoDataUrl(s3Key)
       IN  /\ UNCHANGED s3
           /\ Step(r, "getvideo", [loc[r] EXCEPT !.key = s3Key, !.dataUrl = dataUrl],
                   <<>>, <<Ev("PutObject", FALSE)>>)
    /\ UNCHANGED <<handler, crashed, fs, db, now, nrand, arg, out>>

\* s3Key, dataUrl and cfg.s3Client.PutObject: the object is stored whole under
\* (bucket, key), replacing any object there, or the call fails and stores nothing.
PutObject(r) ==
    /\ pc[r] = "put"
    /\ LET s3Key == S3Key(loc[r].aspect, EncodeToString(loc[r].rnd), loc[r].ext)
           dataUrl == VideoDataUrl(s3Key)
           object == [bucket |-> s3Bucket, key |-> s3Key,
                      contentType |-> loc[r].mediaType, by |-> r]
       IN  \/ /\ Abort(r, StatusInternalServerError, "Couldn't upload file",
                       <<Ev("PutObject", FALSE)>>)
              /\ UNCHANGED s3
           \/ /\ s3' = {o \in s3 : ~(o.bucket = s3Bucket /\ o.key = s3Key)} \cup {object}
              /\ Step(r, "getvideo", [loc[r] EXCEPT !.key = s3Key, !.dataUrl = dataUrl],
                      <<>>, <<Ev("PutObject", TRUE)>>)
    /\ UNCHANGED <<handler, crashed, fs, db, now, nrand, arg, out>>

\* dbVideoToSignedVideo(video): [video, err].  presigned: whether
\* PresignGetObject succeeds.
dbVideoToSignedVideo(video, presigned) ==
    IF video.VideoURL = Nil THEN [video |-> NoVideo, err |-> TRUE]
    ELSE LET url_split == Split(video.VideoURL, ",")
         IN  IF Len(url_split) # 2 THEN [video |-> NoVideo, err |-> TRUE]
             ELSE IF ~presigned THEN [video |-> video, err |-> TRUE]
             ELSE [video |-> [video EXCEPT !.VideoURL =
                                  PresignedURL(url_split[1], url_split[2])],
                   err |-> FALSE]

\* video, err = cfg.dbVideoToSignedVideo(video); respondWithJSON(w, 200, video).
SignAndRespond(r) ==
    /\ pc[r] = "sign"
    /\ \E presigned \in BOOLEAN :
          LET res == dbVideoToSignedVideo(loc[r].video, presigned)
          IN  IF res.err
              THEN Abort(r, StatusInternalServerError,
                         "Couldn't convert video to signed URL", <<Ev("Presign", FALSE)>>)
              ELSE Step(r, ReturnPC(loc[r]), Returned(loc[r]),
                        respondWithJSON(StatusOK), <<Ev("Presign", TRUE)>>)
    /\ UNCHANGED <<handler, crashed, fs, s3, db, now, nrand, arg, out>>

----------------------------------------------------------------------------
\* The steps of handlerUploadThumbnail alone.

\* thumbnail_path and os.Create(thumbnail_path): creates or truncates the file.
CreateAsset(r) ==
    /\ pc[r] = "create"
    /\ LET thumbnail_path == ThumbnailPath(EncodeToString(loc[r].rnd), loc[r].ext)
       IN  \/ /\ Abort(r, StatusInternalServerError, "Couldn't create file",
                       <<Ev("os.Create", FALSE)>>)
              /\ UNCHANGED fs
           \/ /\ fs' = Create(fs, thumbnail_path, r)
              /\ Step(r, "copy", [loc[r] EXCEPT !.path = thumbnail_path],
                      <<>>, <<Ev("os.Create", TRUE)>>)
    /\ UNCHANGED <<handler, crashed, s3, db, now, nrand, arg, out>>

\* respondWithJSON(w, http.StatusOK, video).
RespondThumbnail(r) ==
    /\ pc[r] = "respond"
    /\ Step(r, ReturnPC(loc[r]), Returned(loc[r]), respondWithJSON(StatusOK), <<>>)
    /\ UNCHANGED <<handler, crashed, fs, s3, db, now, nrand, arg, out>>

----------------------------------------------------------------------------
Next ==
    \E r \in Requests :
        \/ Arrive(r)
        \/ Authenticate(r)
        \/ ParseForm(r)
        \/ CheckMediaType(r)
        \/ CreateTemp(r)
        \/ CreateAsset(r)
        \/ CopyBody(r)
        \/ RandRead(r)
        \/ processVideoForFastStart(r)
        \/ OpenProcessed(r)
        \/ getVideoAspectRatio(r)
        \/ PutObject(r)
        \/ GetVideo(r)
        \/ StampVideo(r)
        \/ UpdateVideo(r)
        \/ SignAndRespond(r)
        \/ RespondThumbnail(r)
        \/ RunDefers(r)

Spec == Init /\ [][Next]_vars

----------------------------------------------------------------------------
\* The classifier on its own: every pair of positive dimensions up to MaxDim,
\* and three common frame sizes.

CommonFrames == { <<1920, 1080>>, <<1080, 1920>>, <<1000, 1000>> }

InitClassify ==
    /\ InitServer
    /\ arg \in ((1 .. MaxDim) \X (1 .. MaxDim)) \cup CommonFrames
    /\ out = ""

Classify ==
    /\ out = ""
    /\ out' = ClassifyAspect(arg[1], arg[2])
    /\ UNCHANGED <<pc, handler, loc, resp, hist, crashed, fs, s3, db, now, nrand, arg>>

SpecClassify == InitClassify /\ [][Classify]_vars

----------------------------------------------------------------------------
\* The stored reference on its own: for every configured bucket name, every
\* partition and random identifiers up to MaxRandId, the handler builds the key
\* and the reference, and dbVideoToSignedVideo resolves the record that holds
\* that reference.

\* Values of cfg.s3Bucket; the last one has a comma in it.
BucketNames ==
    { s3Bucket, <<"b">>, <<"media", ".", "example">>, <<"tubely", ",", "bucket">> }

\* The values getVideoAspectRatio returns.
AspectPrefixes == {"landscape", "portrait", "other"}

InitRoundTrip ==
    /\ InitServer
    /\ arg \in BucketNames \X AspectPrefixes \X (1 .. MaxRandId)
    /\ out = <<>>

\* s3Key, dataUrl, video.VideoURL = &dataUrl, PutObject(Bucket, Key) and
\* dbVideoToSignedVideo(video): out records what was put, the record as
\* persisted, and what the resolver returned.
RoundTrip ==
    /\ out = <<>>
    /\ \E presigned \in BOOLEAN :
          LET s3Key == S3Key(arg[2], EncodeToString(arg[3]), <<"mp4">>)
              video == [db["v1"] EXCEPT !.VideoURL = VideoDataUrlFor(arg[1], s3Key)]
          IN  out' = << [put |-> [bucket |-> arg[1], key |-> s3Key],
                         stored |-> video,
                         presigned |-> presigned,
                         res |-> dbVideoToSignedVideo(video, presigned)] >>
    /\ UNCHANGED <<pc, handler, loc, resp, hist, crashed, fs, s3, db, now, nrand, arg>>

SpecRoundTrip == InitRoundTrip /\ [][RoundTrip]_vars

----------------------------------------------------------------------------
\* Vocabulary of the properties.

\* Request r has made the call op with outcome ok.
Has(r, op, ok) == \E i \in 1 .. Len(hist[r]) : hist[r][i] = Ev(op, ok)

\* Every call of op by r comes after a successful call of pred by r.
Follows(r, op, pred) ==
    \A i \in 1 .. Len(hist[r]) :
        hist[r][i].op = op => \E j \in 1 .. (i - 1) : hist[r][j] = Ev(pred, TRUE)

\* Request r has returned from its handler (its deferred calls may be pending).
HasReturned(r) == pc[r] \in {"defers", "done"}

\* Request r wrote exactly one response, with this status code.
Answered(r, code) == Len(resp[r]) = 1 /\ resp[r][1].code = code

\* A Staged File path (what os.CreateTemp names) / a Processed File path.
IsStaged(path) == Len(path) = 3 /\ path[1] = "/tmp/"
IsProcessed(path) == Len(path) = 4 /\ path[4] = ".processing"

\* The reference "bucket,key" of a stored object.
StoredReference(o) == o.bucket \o <<",">> \o o.key

----------------------------------------------------------------------------
\* C1: the video record is written only by a request whose authenticated user
\* is the record's owner, in both handlers; the step at which a non-owner's
\* request reads the record answers 403 Forbidden, returns, and leaves the
\* database as it was, also when (video handler) transcode and upload have
\* already succeeded.
C1_OnlyOwnerWrites ==
    [][/\ \A v \in DOMAIN db :
             db'[v] # db[v] =>
                 \E r \in Requests :
                     /\ pc[r] = "update" /\ pc'[r] # "update"
                     /\ loc[r].videoID = v
                     /\ loc[r].userID = db[v].UserID
                     /\ db'[v].UserID = db[v].UserID
       /\ \A r \in Requests :
             ( /\ pc[r] = "getvideo" /\ pc'[r] # "getvideo"
               /\ loc[r].videoID \in DOMAIN db
               /\ db[loc[r].videoID].UserID # loc[r].userID )
             => /\ HasReturned(r)'
                /\ Answered(r, StatusForbidden)'
                /\ db' = db
       /\ \A r \in Requests :
             HasReturned(r) => HasReturned(r)' /\ resp'[r] = resp[r]
      ]_vars

\* A non-owner's video upload was refused after its object was stored, and
\* the record still has no video-url.
C1_Witness ==
    \E r \in Requests :
        /\ handler[r] = "video"
        /\ HasReturned(r)
        /\ Answered(r, StatusForbidden)
        /\ Has(r, "ffmpeg", TRUE)
        /\ Has(r, "PutObject", TRUE)
        /\ db["v1"].VideoURL = Nil /\ db["v1"].UpdatedAt = 0

\* C2: whenever a record's video-url is set, it is the reference of an object
\* whose PutObject has completed successfully (the object is in the store).
C2_NoDanglingReference ==
    \A v \in DOMAIN db :
        db[v].VideoURL # Nil => \E o \in s3 : StoredReference(o) = db[v].VideoURL

\* A record references an object while another request's PutObject has failed.
C2_Witness ==
    /\ db["v1"].VideoURL # Nil
    /\ \E r \in Requests : Has(r, "PutObject", FALSE)

\* C3 (as claimed): once a video request is done, no Processed File it created
\* exists.
C3_ProcessedFileDeleted ==
    \A r \in Requests :
        pc[r] = "done" => \A f \in fs : f.by = r => ~IsProcessed(f.path)

\* C4: once a video request is done, no Staged File it created exists,
\* whatever the step it returned at; and after a failed body copy the run
\* makes no call but the deferred os.Remove.
C4_StagedFileDeleted ==
    \A r \in Requests :
        /\ pc[r] = "done" => \A f \in fs : f.by = r => ~IsStaged(f.path)
        /\ \A i \in 1 .. Len(hist[r]) :
              hist[r][i] = Ev("io.Copy", FALSE) =>
                  \A j \in (i + 1) .. Len(hist[r]) : hist[r][j].op = "os.Remove"

\* A video request whose body copy failed is done.
C4_Witness ==
    \E r \in Requests :
        /\ handler[r] = "video"
        /\ pc[r] = "done"
        /\ Has(r, "os.CreateTemp", TRUE)
        /\ Has(r, "io.Copy", FALSE)
        /\ Has(r, "os.Remove", TRUE)

\* The stages every run of the video handler shares, whatever the order of
\* prober and transcoder.
StagedThenUploadedThenCommitted(r) ==
    /\ Follows(r, "io.Copy", "os.CreateTemp")
    /\ Follows(r, "GetVideo", "PutObject")
    /\ Follows(r, "UpdateVideo", "GetVideo")

DeclaredAllowed(h, contentType) ==
    IF h = "video"
    THEN contentType \in { <<"video", "/", "mp4">>, <<"VIDEO", "/", "MP4">>,
                           <<"video", "/", "mp4", ";", "codecs=avc1">> }
    ELSE contentType \in { <<"image", "/", "jpeg">>, <<"image", "/", "png">> }

C7_MissingVideoIsNotFound ==
    \A r \in Requests :
        (HasReturned(r) /\ Has(r, "GetVideo", FALSE)) =>
            /\ Len(resp[r]) = 1
            /\ resp[r][1].code \in 400 .. 499
            /\ \A i \in 1 .. Len(hist[r]) : hist[r][i].op # "UpdateVideo"

\* C8 (as claimed): a run of the video handler that is done wrote exactly one
\* response and did not crash.
C8_ExactlyOneResponse ==
    \A r \in Requests :
        (handler[r] = "video" /\ pc[r] = "done") => Len(resp[r]) = 1 /\ ~crashed[r]

\* The maximum upload size of each endpoint, in MiB: 1 GiB for video, 10 MiB
\* for thumbnail.
MaxUploadMiB(h) == IF h = "video" THEN VideoLimitMiB ELSE ThumbMaxMemoryMiB

\* C9 (as claimed): a request whose body exceeds the endpoint's maximum has
\* been rejected before staging: it creates no temp or asset file and never
\* reaches the body copy.
C9_OversizeRejectedBeforeStaging ==
    \A r \in Requests :
        pc[r] \in {"createtemp", "create", "copy"} =>
            loc[r].size <= MaxUploadMiB(handler[r])

\* floor(a / b) for a >= 0, b > 0, from its defining inequalities.
Floor(a, b) == CHOOSE q \in 0 .. a : q * b <= a /\ a < (q + 1) * b

\* The reference rule of the aspect classification.
ReferenceAspect(width, height) ==
    IF Floor(width, height) = Floor(16, 9) THEN "landscape"
    ELSE IF Floor(height, width) = Floor(16, 9) THEN "portrait"
    ELSE "other"

\* C10: for positive width and height the classification the code computes
\* is the reference rule's: landscape exactly when floor(width/height) =
\* floor(16/9), else portrait exactly when floor(height/width) = floor(16/9),
\* else other.
C10_ClassifyMatchesReference ==
    out # "" => out = ReferenceAspect(arg[1], arg[2])

\* A wide frame whose quotient is not 1 was classified other.
C10_Witness == arg = <<11, 4>> /\ out = "other"

\* C11 (as claimed): 1920x1080 is landscape, 1080x1920 is portrait,
\* 1000x1000 is other, and every square frame is other.
C11_SquareIsOther ==
    out # "" =>
        /\ arg = <<1920, 1080>> => out = "landscape"
        /\ arg = <<1080, 1920>> => out = "portrait"
        /\ arg = <<1000, 1000>> => out = "other"
        /\ arg[1] = arg[2] => out = "other"

\* C12 (as claimed): no run crashes in the classification that follows a
\* successful ffprobe; a zero width or height gives `other` or an error
\* response.
C12_ZeroDimensionGuarded ==
    \A r \in Requests : Has(r, "ffprobe", TRUE) => ~crashed[r]

\* Request r takes its successful cfg.db.UpdateVideo step.
UpdatesRecord(r) ==
    /\ pc[r] = "update"
    /\ hist'[r] = hist[r] \o <<Ev("UpdateVideo", TRUE)>>

\* C13: last writer wins.  Every successful UpdateVideo step of a video
\* upload, whatever was written before it by other requests, leaves the
\* record's video-url equal to that request's own reference, which names an
\* object the request has put in the store; the record changes at no other
\* step; and a request at UpdateVideo can always take the step (nothing another
\* request does rejects it or makes it wait).
C13_LastWriterWins ==
    [][/\ \A r \in Requests :
             (UpdatesRecord(r) /\ handler[r] = "video") =>
                 /\ db'[loc[r].videoID].VideoURL = loc[r].dataUrl
                 /\ \E o \in s3' :
                       o.by = r /\ StoredReference(o) = db'[loc[r].videoID].VideoURL
       /\ db' # db => \E r \in Requests : UpdatesRecord(r)
       /\ \A r \in Requests :
             pc[r] = "update" =>
                 ENABLED (UpdateVideo(r) /\ UpdatesRecord(r))
      ]_vars

\* Two video uploads of the owner to the same video id have both been
\* answered 200, and the record holds the reference of the second upload's
\* object although it was the first to be stored.
C13_Witness ==
    \E r, q \in Requests :
        /\ r # q
        /\ handler[r] = "video" /\ handler[q] = "video"
        /\ pc[r] = "done" /\ pc[q] = "done"
        /\ Answered(r, StatusOK) /\ Answered(q, StatusOK)
        /\ \E o \in s3 : o.by = r /\ StoredReference(o) = db["v1"].VideoURL
        /\ db["v1"].UpdatedAt = 2

\* The temp files request r is working with: its Staged File, its Processed
\* File, and the arguments of its pending deferred os.Remove calls.
TempFilesOf(r) ==
    ({loc[r].temp, loc[r].path} \cup {loc[r].defers[i] : i \in 1 .. Len(loc[r].defers)})
        \ {Nil}

\* The object key a video request at PutObject asks for.
KeyOf(r) == S3Key(loc[r].aspect, EncodeToString(loc[r].rnd), loc[r].ext)

\* C14: two video pipelines never have the same Staged File path or the same
\* Processed File path, and every temp file a pipeline works with was created
\* by it; a file is deleted only by the deferred os.Remove of the pipeline
\* that created it and no file is ever written over; a PutObject never names
\* the key of a stored object or the key of another pipeline at PutObject.
C14_ExclusiveTempFiles ==
    /\ [](\A r \in Requests :
             handler[r] = "video" =>
                 /\ \A f \in fs : f.path \in TempFilesOf(r) => f.by = r
                 /\ pc[r] \in {"copy", "rand", "process", "open", "probe", "put"} =>
                        \E f \in fs : f.path = loc[r].temp /\ f.by = r
                 /\ pc[r] \in {"probe", "put"} =>
                        \E f \in fs : f.path = loc[r].path /\ f.by = r
                 /\ \A q \in Requests \ {r} :
                       handler[q] = "video" =>
                           /\ TempFilesOf(r) \cap TempFilesOf(q) = {}
                           /\ (loc[r].temp # Nil /\ loc[q].temp # Nil) =>
                                  /\ loc[r].temp # loc[q].temp
                                  /\ ProcessedPath(loc[r].temp) # ProcessedPath(loc[q].temp)
                           /\ (pc[r] = "put" /\ pc[q] = "put") => KeyOf(r) # KeyOf(q))
    /\ [][/\ \A f \in fs :
                f \notin fs' => pc[f.by] = "defers" /\ pc'[f.by] = "done"
          /\ \A f \in fs' : f \notin fs => ~Exists(f.path)
          /\ \A r \in Requests :
                (pc[r] = "put" /\ pc'[r] # "put") =>
                    /\ \A o \in s3 : o.key # KeyOf(r) /\ o \in s3'
                    /\ \A o \in s3' : o \notin s3 => o.key = KeyOf(r) /\ o.by = r
         ]_vars

\* Two video pipelines are at PutObject at once, each with its own Staged
\* File and Processed File on disk.
C14_Witness ==
    \E r, q \in Requests :
        /\ r # q
        /\ handler[r] = "video" /\ handler[q] = "video"
        /\ pc[r] = "put" /\ pc[q] = "put"
        /\ \A x \in {r, q} :
              /\ IsStaged(loc[x].temp) /\ IsProcessed(loc[x].path)
              /\ [path |-> loc[x].temp, by |-> x] \in fs
              /\ [path |-> loc[x].path, by |-> x] \in fs

\* The objects request r has added to the store.
ObjectsOf(r) == {o \in s3 : o.by = r}

\* A key of the form {partition}/{random-id}.mp4.
IsPartitionedKey(key) ==
    /\ Len(key) = 5
    /\ key[1] \in {"landscape", "portrait", "other"}
    /\ key[2] = "/"
    /\ \E n \in 1 .. nrand : <<key[3]>> = EncodeToString(n)
    /\ key[4] = "." /\ key[5] = "mp4"

\* C15: no run adds more than one object, and a video upload answered 200 has
\* added exactly one, under a key {partition}/{random-id}.mp4 with
\* content-type video/mp4; its UpdateVideo step leaves the record with the
\* reference to that key in video-url and with the updated-at the run read
\* from the clock, later than the updated-at of the record the run had read.
C15_OneObjectPerSuccess ==
    /\ [](\A r \in Requests :
             /\ Cardinality(ObjectsOf(r)) <= 1
             /\ handler[r] = "thumbnail" => ObjectsOf(r) = {}
             /\ (handler[r] = "video" /\ Answered(r, StatusOK)) =>
                    \E o \in ObjectsOf(r) :
                        /\ IsPartitionedKey(o.key)
                        /\ o.bucket = s3Bucket
                        /\ o.contentType = <<"video", "/", "mp4">>
                        /\ Has(r, "UpdateVideo", TRUE))
    /\ [][\A r \in Requests :
              /\ (pc[r] = "stamp" /\ pc'[r] = "update") =>
                     loc'[r].video.UpdatedAt > loc[r].video.UpdatedAt
              /\ (UpdatesRecord(r) /\ handler[r] = "video") =>
                     /\ \E o \in ObjectsOf(r) :
                           db'[loc[r].videoID].VideoURL = s3Bucket \o <<",">> \o o.key
                     /\ db'[loc[r].videoID].UpdatedAt = loc[r].video.UpdatedAt
                     /\ db'[loc[r].videoID].UpdatedAt > 0
         ]_vars

\* A video upload has been answered 200 with its one object under portrait/,
\* while the other request, refused, has added none.
C15_Witness ==
    \E r, q \in Requests :
        /\ handler[r] = "video" /\ pc[r] = "done" /\ Answered(r, StatusOK)
        /\ \E o \in s3 : ObjectsOf(r) = {o} /\ o.key[1] = "portrait"
                         /\ db["v1"].VideoURL = StoredReference(o)
        /\ db["v1"].UpdatedAt = 1
        /\ q # r /\ pc[q] = "done" /\ ObjectsOf(q) = {} /\ s3 = ObjectsOf(r)

\* The stage actions of the video pipeline, as named in hist.
StageOps == {"io.Copy", "ffmpeg", "ffprobe", "PutObject", "GetVideo", "UpdateVideo"}

\* C16: in one run of handlerUploadVideo each of body copy, transcoder,
\* prober, PutObject, GetVideo and UpdateVideo is invoked at most once; once a
\* call has failed the run makes no further call but its deferred os.Remove,
\* and it has returned with one error response.
C16_FailStopNoRetry ==
    \A r \in Requests :
        handler[r] = "video" =>
            /\ \A i, j \in 1 .. Len(hist[r]) :
                  (hist[r][i].op \in StageOps /\ hist[r][i].op = hist[r][j].op) => i = j
            /\ \A i \in 1 .. Len(hist[r]) :
                  ~hist[r][i].ok =>
                      /\ \A j \in (i + 1) .. Len(hist[r]) : hist[r][j].op = "os.Remove"
                      /\ HasReturned(r)
                      /\ Answered(r, StatusInternalServerError)

\* A video upload whose PutObject failed is done: it transcoded and probed,
\* then did nothing but delete its two temp files.
C16_Witness ==
    \E r \in Requests :
        /\ handler[r] = "video" /\ pc[r] = "done"
        /\ Has(r, "ffmpeg", TRUE) /\ Has(r, "ffprobe", TRUE)
        /\ Len(hist[r]) >= 3
        /\ hist[r][Len(hist[r]) - 2] = Ev("PutObject", FALSE)
        /\ hist[r][Len(hist[r]) - 1] = Ev("os.Remove", TRUE)
        /\ hist[r][Len(hist[r])] = Ev("os.Remove", TRUE)
        /\ ~Has(r, "GetVideo", TRUE) /\ ~Has(r, "UpdateVideo", TRUE)

\* The text has no comma in it.
CommaFree(text) == \A i \in 1 .. Len(text) : text[i] # ","

\* C17: for a bucket name without a comma and every key the pipeline builds,
\* the persisted reference splits on "," into exactly the bucket and the key
\* given to PutObject; when signing succeeds dbVideoToSignedVideo returns no
\* error and the URL signed for that bucket and key; the persisted record keeps
\* the compact reference, the signed URL is in the returned copy only.
C17_ReferenceRoundTrip ==
    (out # <<>> /\ CommaFree(out[1].put.bucket)) =>
        LET o == out[1]
        IN  /\ Split(o.stored.VideoURL, ",") = <<o.put.bucket, o.put.key>>
            /\ o.stored.VideoURL = o.put.bucket \o <<",">> \o o.put.key
            /\ o.presigned =>
                   /\ ~o.res.err
                   /\ o.res.video.VideoURL = PresignedURL(o.put.bucket, o.put.key)
                   /\ o.res.video.VideoURL # o.stored.VideoURL
                   /\ [o.res.video EXCEPT !.VideoURL = o.stored.VideoURL] = o.stored
            /\ ~o.presigned => o.res.err

\* The reference of a portrait upload to the bucket media.example has been
\* resolved to its signed URL.
C17_Witness ==
    /\ out # <<>>
    /\ out[1].put.bucket = <<"media", ".", "example">>
    /\ out[1].put.key = <<"portrait", "/", "b64-3", ".", "mp4">>
    /\ out[1].presigned /\ ~out[1].res.err
    /\ out[1].res.video.VideoURL =
           <<"https://", "media", ".", "example", ".s3.amazonaws.com/",
             "portrait", "/", "b64-3", ".", "mp4", "?X-Amz-Signature">>

\* C18 (as claimed): a video upload that ended with an error response (4xx or
\* 5xx) has not updated the record: its UpdateVideo has not succeeded.
C18_ErrorLeavesRecordUnchanged ==
    \A r \in Requests :
        ( /\ handler[r] = "video"
          /\ HasReturned(r)
          /\ Len(resp[r]) = 1
          /\ resp[r][1].code \in 400 .. 599 )
        => ~Has(r, "UpdateVideo", TRUE)

\* C19 (as claimed): when a video upload and a thumbnail upload of the owner
\* to the same video id have both been answered 200, the record holds the
\* video upload's reference and the thumbnail upload's URL.
C19_BothFieldsKept ==
    \A r, q \in Requests :
        ( /\ handler[r] = "video" /\ handler[q] = "thumbnail"
          /\ pc[r] = "done" /\ pc[q] = "done"
          /\ Answered(r, StatusOK) /\ Answered(q, StatusOK) )
        => /\ \E o \in ObjectsOf(r) : db["v1"].VideoURL = StoredReference(o)
           /\ db["v1"].ThumbnailURL # Nil
====
